---- MODULE Spec2Model ----
(***************************************************************************)
(* Model of the indexing / retrieval pipeline of AI_Codegen_Agent:         *)
(*   src/src/indexing.py  CodebaseIndex (get_table, store, retrieve, clear)*)
(*   src/src/codebase.py  CodebaseUnderstanding.index_repository           *)
(*   src/src/codebase.py  CodebaseUnderstanding.search_similar_code        *)
(*   src/src/parser.py    CodeParser.chunk_code                            *)
(*   src/src/github_service.py  GitHubService.list_files, get_file_content *)
(*   src/src/code_generator.py  CodeGenerator.generate_implementation      *)
(*                                                                         *)
(* Text is a sequence of units.  A unit of a file path is one character    *)
(* ("a", "/", ".", "_", ...); the units of a filter string are the SQL     *)
(* lexemes the f-strings of retrieve put around the interpolated values    *)
(* ("repo", "=", "'", "AND", ...).  Interpolation is concatenation, and    *)
(* the store reads the filter back by lexing and parsing it.               *)
(***************************************************************************)
EXTENDS Integers, Sequences, FiniteSets, TLC

VARIABLES tableExists, table, index, call, cleared, bulkStores

vars == <<tableExists, table, index, call, cleared, bulkStores>>

\* ------------------------------------------------------------------ bounds
\* rows a table holds at most in Spec
MaxRows == 2
\* rows a table holds at most in SpecBulk
MaxBulkRows == 360
\* store calls of SpecBulk
MaxBulkStores == 2
\* largest n passed to retrieve
MaxN == 2
\* lines of the longest file given to chunk_code
MaxLines == 20
\* pieces the splitter returns at most
MaxPieces == 3
\* largest max_files passed to generate_implementation
MaxFiles == 2

\* ------------------------------------------------------- program constants
\* store: batch_size
batch_size == 100
\* store: threshold between the two index builds
IndexThreshold == 256
\* store: rows per partition of the partitioned index
RowsPerPartition == 20
\* store: cap of num_partitions
MaxPartitions == 256
\* chunk_code: chunk_lines_overlap subtracted in the start-line walk
Overlap == 15

\* ------------------------------------------------------------ text helpers
Min(a, b) == IF a < b THEN a ELSE b
Max(a, b) == IF a > b THEN a ELSE b
Abs(a) == IF a < 0 THEN 0 - a ELSE a

\* s[a..b], 1-based, empty when a > b
Slice(s, a, b) == IF a > b THEN <<>> ELSE SubSeq(s, a, b)

\* the positions of unit u in s
Positions(s, u) == {i \in 1..Len(s) : s[i] = u}

SetMax(S) == CHOOSE m \in S : \A x \in S : x <= m

\* str.startswith
StartsWith(s, p) == Len(p) <= Len(s) /\ SubSeq(s, 1, Len(p)) = p

\* str.lower() on the characters the model uses
LowerChar(c) ==
  CASE c = "C" -> "c"
    [] c = "H" -> "h"
    [] c = "P" -> "p"
    [] c = "Y" -> "y"
    [] OTHER -> c

Lower(s) == [i \in 1..Len(s) |-> LowerChar(s[i])]

\* str.replace('\\', '/')
ReplaceBackslash(s) == [i \in 1..Len(s) |-> IF s[i] = "\\" THEN "/" ELSE s[i]]

\* pathlib: Path(filepath).name, the text after the last "/"
PathName(filepath) ==
  LET sl == Positions(filepath, "/")
  IN  IF sl = {} THEN filepath
      ELSE Slice(filepath, SetMax(sl) + 1, Len(filepath))

\* pathlib: Path(filepath).suffix, from the last "." of the name, when that
\* "." is neither the first nor the last character of the name
PathSuffix(filepath) ==
  LET name == PathName(filepath)
      dots == Positions(name, ".")
  IN  IF dots = {} THEN <<>>
      ELSE LET i == SetMax(dots)
           IN  IF i > 1 /\ i < Len(name) THEN Slice(name, i, Len(name))
               ELSE <<>>

\* CodebaseIndex.get_language
get_language(filepath) ==
  LET ext == Lower(PathSuffix(filepath))
  IN  CASE ext = <<".", "t", "s">> -> "typescript"
        [] ext = <<".", "t", "s", "x">> -> "typescript"
        [] ext = <<".", "j", "s">> -> "javascript"
        [] ext = <<".", "j", "s", "x">> -> "javascript"
        [] ext = <<".", "p", "y">> -> "python"
        [] ext = <<".", "r", "b">> -> "ruby"
        [] ext = <<".", "r", "s">> -> "rust"
        [] ext = <<".", "g", "o">> -> "go"
        [] ext = <<".", "j", "a", "v", "a">> -> "java"
        [] ext = <<".", "c", "s">> -> "c_sharp"
        [] ext = <<".", "c", "p", "p">> -> "cpp"
        [] ext = <<".", "c">> -> "c"
        [] ext = <<".", "p", "h", "p">> -> "php"
        [] ext = <<".", "e", "l">> -> "elisp"
        [] ext = <<".", "e", "x">> -> "elixir"
        [] ext = <<".", "e", "l", "m">> -> "elm"
        [] ext = <<".", "m", "l">> -> "ocaml"
        [] ext = <<".", "q", "l">> -> "ql"
        [] ext = <<".", "s", "w", "i", "f", "t">> -> "swift"
        [] OTHER -> "unknown"

\* ------------------------------------------------------------------- types
\* types.py: Chunk.range is Optional[Range]; None is NoRange
NoRange == [none |-> TRUE]

Range(startLine, endLine) ==
  [start |-> [line |-> startLine, character |-> 0],
   end |-> [line |-> endLine, character |-> 0]]

Chunk(filepath, content, range, repo, branch) ==
  [filepath |-> filepath, content |-> content, range |-> range,
   repo |-> repo, branch |-> branch]

\* The embedding function is external: text -> vector, the same text always to
\* the same vector.  The model's vector is one number, the count of "x" lines.
Embed(content) == Cardinality({i \in 1..Len(content) : content[i] = "x"})

\* distance of a stored vector to the query vector (smaller is more similar)
Distance(e, q) == Abs(e - q)

\* ------------------------------------------------------------- CodebaseIndex
\* store: total_batches, and the number of turns of `for i in range(0, len(chunks), batch_size)`
NumBatches(n) == (n + batch_size - 1) \div batch_size

\* store: batch = chunks[i:i + batch_size], for the k-th turn of the loop (k from 1)
BatchOf(chunks, k) ==
  Slice(chunks, (k - 1) * batch_size + 1, Min(k * batch_size, Len(chunks)))

\* What the await of embeddings_provider gives for one batch.  The provider is
\* external; its outcomes are: "ok", one vector per text in order; "raise", an
\* exception; "short", the vector of the first text is missing; "long", one
\* vector too many.
Outcomes == {"ok", "raise", "short", "long"}

EmbedBatch(batch, outcome) ==
  LET vs == [i \in 1..Len(batch) |-> Embed(batch[i].content)]
  IN  CASE outcome = "short" -> Tail(vs)
        [] outcome = "long" -> Append(vs, 0)
        [] OTHER -> vs

\* store: the row built from one (chunk, embedding) pair
MakeRow(chunk, embedding) ==
  LET start_line == IF chunk.range # NoRange THEN chunk.range.start.line ELSE 0
      end_line == IF chunk.range # NoRange THEN chunk.range.end.line ELSE 0
  IN  [id |-> <<chunk.filepath, start_line>>,
       filepath |-> chunk.filepath,
       content |-> chunk.content,
       embedding |-> embedding,
       start_line |-> start_line,
       end_line |-> end_line,
       language |-> get_language(chunk.filepath),
       repo |-> chunk.repo,
       branch |-> chunk.branch]

\* store: the body of the try for one batch; zip stops at the shorter of the
\* two sequences, and an exception of the provider leaves no row of the batch
BatchRows(batch, outcome) ==
  IF outcome = "raise" THEN <<>>
  ELSE LET embeddings == EmbedBatch(batch, outcome)
       IN  [i \in 1..Min(Len(batch), Len(embeddings)) |->
              MakeRow(batch[i], embeddings[i])]

\* all_rows if the except of the batch loop left the loop instead of going on
RECURSIVE RowsFromAbort(_, _, _)
RowsFromAbort(chunks, outcomes, k) ==
  IF k > NumBatches(Len(chunks)) \/ outcomes[k] = "raise" THEN <<>>
  ELSE BatchRows(BatchOf(chunks, k), outcomes[k]) \o RowsFromAbort(chunks, outcomes, k + 1)

\* store: all_rows after the batch loop
RECURSIVE RowsFrom(_, _, _)
RowsFrom(chunks, outcomes, k) ==
  IF k > NumBatches(Len(chunks)) THEN <<>>
  ELSE BatchRows(BatchOf(chunks, k), outcomes[k]) \o RowsFrom(chunks, outcomes, k + 1)

AllRows(chunks, outcomes) == RowsFrom(chunks, outcomes, 1)

NoIndex == [kind |-> "none", partitions |-> 0]

\* the index whose partition count is the row count divided by 20, rounded up
IndexChoiceRoundUp(all_rows) ==
  IF Len(all_rows) < IndexThreshold
  THEN [kind |-> "small", partitions |-> 0]
  ELSE [kind |-> "partitioned",
        partitions |-> Min((Len(all_rows) + RowsPerPartition - 1) \div RowsPerPartition,
                           MaxPartitions)]

\* store: the index built for all_rows; create_index without partition
\* arguments on the small path, with num_partitions on the other
IndexChoice(all_rows) ==
  IF Len(all_rows) < IndexThreshold
  THEN [kind |-> "small", partitions |-> 0]
  ELSE [kind |-> "partitioned",
        partitions |-> Min(Len(all_rows) \div RowsPerPartition, MaxPartitions)]

\* an exception of create_index that is not caught
IndexFailureRaises == TRUE

\* store: whether an exception of create_index leaves store; the inner
\* except prints and falls through
IndexFailureIsFatal == FALSE

\* get_table: the rows of the table it returns; a missing table is created empty
TableRows == IF tableExists THEN table ELSE <<>>

\* CodebaseIndex.store(chunks): what the call did.  outcomes[k] is the
\* provider's outcome for batch k, addFails whether table.add raises,
\* indexFails whether create_index raises.
StoreRecord(chunks, outcomes, addFails, indexFails) ==
  LET all_rows == IF chunks = <<>> THEN <<>> ELSE AllRows(chunks, outcomes)
      wrote == all_rows # <<>> /\ ~addFails
  IN  [chunks |-> chunks, outcomes |-> outcomes, addFails |-> addFails,
       before |-> TableRows,
       all_rows |-> all_rows, wrote |-> wrote,
       built |-> IF wrote /\ ~indexFails THEN IndexChoice(all_rows) ELSE NoIndex,
       indexFailed |-> wrote /\ indexFails,
       raised |-> \/ all_rows # <<>> /\ addFails
                  \/ wrote /\ indexFails /\ IndexFailureIsFatal]

\* CodebaseIndex.store(chunks): its effect on the table and the index, r
\* being what the call did.  An empty chunks returns before get_table;
\* otherwise get_table creates a missing table, the rows of all batches are
\* added in one table.add after the loop, and the index is built for them.
StoreEffect(r) ==
  IF r.chunks = <<>>
  THEN UNCHANGED <<tableExists, table, index, cleared>>
  ELSE /\ tableExists' = TRUE
       /\ table' = IF r.wrote THEN TableRows \o r.all_rows ELSE TableRows
       /\ index' = IF r.wrote /\ ~r.indexFailed THEN r.built
                   ELSE IF tableExists THEN index ELSE NoIndex
       /\ cleared' = (cleared /\ ~r.wrote)

\* What `await db.drop_table(...)` does in clear.  db is the connection of
\* lancedb.connect, used without await for table_names, open_table and
\* create_table (indexing.py 48, 53, 70, 335): drop_table drops the table and
\* returns None, and awaiting None raises TypeError.
AwaitDropTableRaises == TRUE

\* CodebaseIndex.clear()
Clear ==
  /\ tableExists' = FALSE
  /\ table' = <<>>
  /\ index' = NoIndex
  /\ cleared' = TRUE
  /\ call' = [op |-> "clear", existed |-> tableExists,
              raised |-> tableExists /\ AwaitDropTableRaises]

\* ------------------------------------------------------- the filter language
\* The store reads the filter string as an SQL expression.  A "'" opens a
\* string literal that runs to the next "'"; every other unit is a symbol.
\* An unterminated literal is the lexeme "err".
NextQuote(s, i) ==
  LET q == {j \in i..Len(s) : s[j] = "'"}
  IN  IF q = {} THEN 0 ELSE CHOOSE j \in q : \A k \in q : j <= k

RECURSIVE LexFrom(_, _)
LexFrom(s, i) ==
  IF i > Len(s) THEN <<>>
  ELSE IF s[i] = "'"
       THEN LET j == NextQuote(s, i + 1)
            IN  IF j = 0 THEN <<[t |-> "err", v |-> <<>>]>>
                ELSE <<[t |-> "str", v |-> Slice(s, i + 1, j - 1)]>> \o LexFrom(s, j + 1)
       ELSE <<[t |-> "sym", v |-> <<s[i]>>]>> \o LexFrom(s, i + 1)

Lex(s) == LexFrom(s, 1)

Sym(u) == [t |-> "sym", v |-> <<u>>]

\* SQL LIKE: "%" matches any run of characters, "_" any one character
RECURSIVE LikeMatch(_, _)
LikeMatch(s, p) ==
  IF p = <<>> THEN s = <<>>
  ELSE IF Head(p) = "%"
       THEN LikeMatch(s, Tail(p)) \/ (s # <<>> /\ LikeMatch(Tail(s), p))
       ELSE /\ s # <<>>
            /\ Head(p) = "_" \/ Head(p) = Head(s)
            /\ LikeMatch(Tail(s), Tail(p))

\* the columns a filter may name, and a row's value of each as text
Columns == {"repo", "branch", "filepath", "language"}

ColumnValue(row, col) ==
  CASE col = "repo" -> row.repo
    [] col = "branch" -> row.branch
    [] col = "filepath" -> row.filepath
    [] OTHER -> <<row.language>>

Fail == [ok |-> FALSE, val |-> FALSE, rest |-> <<>>]

\* expr := and ("OR" and)*    and := atom ("AND" atom)*
\* atom := "(" expr ")" | column ("=" | "LIKE") literal
\* Each returns whether it parsed, its value on the row, and the lexemes left.
RECURSIVE ParseOr(_, _), ParseAnd(_, _), ParseAtom(_, _)
ParseAtom(L, row) ==
  IF L = <<>> THEN Fail
  ELSE IF L[1] = Sym("(")
       THEN LET e == ParseOr(Tail(L), row)
            IN  IF e.ok /\ e.rest # <<>> /\ Head(e.rest) = Sym(")")
                THEN [ok |-> TRUE, val |-> e.val, rest |-> Tail(e.rest)]
                ELSE Fail
       ELSE IF /\ Len(L) >= 3
               /\ L[1].t = "sym" /\ L[1].v[1] \in Columns
               /\ L[2] \in {Sym("="), Sym("LIKE")}
               /\ L[3].t = "str"
            THEN [ok |-> TRUE,
                  val |-> IF L[2] = Sym("=")
                          THEN ColumnValue(row, L[1].v[1]) = L[3].v
                          ELSE LikeMatch(ColumnValue(row, L[1].v[1]), L[3].v),
                  rest |-> Slice(L, 4, Len(L))]
            ELSE Fail

ParseAnd(L, row) ==
  LET a == ParseAtom(L, row)
  IN  IF a.ok /\ a.rest # <<>> /\ Head(a.rest) = Sym("AND")
      THEN LET b == ParseAnd(Tail(a.rest), row)
           IN  [ok |-> b.ok, val |-> a.val /\ b.val, rest |-> b.rest]
      ELSE a

ParseOr(L, row) ==
  LET a == ParseAnd(L, row)
  IN  IF a.ok /\ a.rest # <<>> /\ Head(a.rest) = Sym("OR")
      THEN LET b == ParseOr(Tail(a.rest), row)
           IN  [ok |-> b.ok, val |-> a.val \/ b.val, rest |-> b.rest]
      ELSE a

\* a row to parse a filter on when the table is empty
BlankRow ==
  [id |-> <<<<>>, 0>>, filepath |-> <<>>, content |-> <<>>, embedding |-> 0,
   start_line |-> 0, end_line |-> 0, language |-> "unknown",
   repo |-> <<>>, branch |-> <<>>]

\* whether the store accepts the filter string
FilterParses(filter) ==
  LET p == ParseOr(Lex(filter), BlankRow) IN p.ok /\ p.rest = <<>>

\* whether the row satisfies a filter string the store accepts
Where(filter, row) == ParseOr(Lex(filter), row).val

\* ---------------------------------------------------------------- retrieve
\* ' AND '.join / ' OR '.join of filter texts
RECURSIVE Join(_, _)
Join(parts, sep) ==
  IF parts = <<>> THEN <<>>
  ELSE IF Len(parts) = 1 THEN parts[1]
       ELSE parts[1] \o <<sep>> \o Join(Tail(parts), sep)

\* f"{column} = '{value}'"
CondEq(column, value) == <<column, "=", "'">> \o value \o <<"'">>

\* f"filepath LIKE '{directory}%'"
CondLike(directory) == <<"filepath", "LIKE", "'">> \o directory \o <<"%", "'">>

\* retrieve: which tag gives repo_name and branch_name
RepoBranchTag == 1

\* retrieve: whether the branch condition is added, given repo_name and branch_name
BranchApplies(repo_name, branch_name) == repo_name # <<>> /\ branch_name # <<>>

\* retrieve: the repo and branch conditions.  None and '' are both <<>>: every
\* use of these values in retrieve is a truth test.
RepoBranchConds(tags) ==
  LET repo_name == IF tags # <<>> THEN tags[RepoBranchTag].repo ELSE <<>>
      branch_name == IF tags # <<>> THEN tags[RepoBranchTag].branch ELSE <<>>
  IN  (IF repo_name # <<>> THEN <<CondEq("repo", repo_name)>> ELSE <<>>)
      \o (IF BranchApplies(repo_name, branch_name)
          THEN <<CondEq("branch", branch_name)>> ELSE <<>>)

\* retrieve: dir_filters, one LIKE per tag whose directory, with "\" turned
\* into "/", is neither empty nor "/"
RECURSIVE DirFilters(_)
DirFilters(tags) ==
  IF tags = <<>> THEN <<>>
  ELSE LET dir_filter == ReplaceBackslash(Head(tags).directory)
       IN  (IF Head(tags).directory # <<>> /\ dir_filter # <<>> /\ dir_filter # <<"/">>
            THEN <<CondLike(dir_filter)>> ELSE <<>>)
           \o DirFilters(Tail(tags))

\* retrieve: the directory condition
DirConds(tags, filter_directory) ==
  IF filter_directory # <<>> THEN <<CondLike(filter_directory)>>
  ELSE IF DirFilters(tags) # <<>>
       THEN << <<"(">> \o Join(DirFilters(tags), "OR") \o <<")">> >>
       ELSE <<>>

\* retrieve: filter_str; <<>> is None
FilterStr(tags, filter_directory, language) ==
  Join(RepoBranchConds(tags)
         \o DirConds(tags, filter_directory)
         \o (IF language # <<>> THEN <<CondEq("language", language)>> ELSE <<>>),
       "AND")

\* the rows of a sequence that satisfy the filter, in their order
FilterRows(rows, filter) ==
  SelectSeq(rows, LAMBDA r : filter = <<>> \/ Where(filter, r))

\* rows by increasing distance to the query vector, from distance d on, equal
\* distances in table order
RECURSIVE ByDistanceFrom(_, _, _)
ByDistanceFrom(rows, q, d) ==
  IF rows = <<>> THEN <<>>
  ELSE SelectSeq(rows, LAMBDA r : Distance(r.embedding, q) = d)
       \o ByDistanceFrom(SelectSeq(rows, LAMBDA r : Distance(r.embedding, q) # d), q, d + 1)

SortByDistance(rows, q) == ByDistanceFrom(rows, q, 0)

\* .limit(n)
Limit(rows, n) == Slice(rows, 1, Min(n, Len(rows)))

\* retrieve: table.search(query_embedding).where(filter_str).limit(n).  The
\* store applies the filter before the nearest-neighbour search (prefilter) or
\* to its n results, depending on the version of the library.
Search(rows, q, filter, n, prefilter) ==
  IF prefilter
  THEN Limit(SortByDistance(FilterRows(rows, filter), q), n)
  ELSE FilterRows(Limit(SortByDistance(rows, q), n), filter)

\* the chunk whose range ends where it starts
RowToChunkStartOnly(row) ==
  Chunk(row.filepath, row.content, Range(row.start_line, row.start_line),
        row.repo, row.branch)

\* retrieve: a result row as a Chunk
RowToChunk(row) ==
  Chunk(row.filepath, row.content, Range(row.start_line, row.end_line),
        row.repo, row.branch)

\* the list built by putting each chunk in front of the earlier ones
ToChunksReversed(results) ==
  [i \in 1..Len(results) |-> RowToChunk(results[Len(results) + 1 - i])]

\* retrieve: the list returned for the rows the search gave
ToChunks(results) == [i \in 1..Len(results) |-> RowToChunk(results[i])]

\* CodebaseIndex.retrieve(query, n, tags, filter_directory, language).
\* embedOk: whether the await of embeddings_provider([query]) returns a vector.
Retrieve(query, n, tags, filter_directory, language, embedOk, prefilter) ==
  LET filter == FilterStr(tags, filter_directory, language)
      raised == ~embedOk \/ (filter # <<>> /\ ~FilterParses(filter))
      results == IF raised THEN <<>>
                 ELSE Search(TableRows, Embed(query), filter, n, prefilter)
  IN  /\ tableExists' = TRUE
      /\ table' = TableRows
      /\ index' = IF tableExists THEN index ELSE NoIndex
      /\ UNCHANGED cleared
      /\ call' = [op |-> "retrieve", query |-> query, n |-> n, tags |-> tags,
                  filter_directory |-> filter_directory, language |-> language,
                  embedOk |-> embedOk, prefilter |-> prefilter, filter |-> filter,
                  raised |-> raised, found |-> results,
                  result |-> ToChunks(results)]

\* ------------------------------------------------------ CodeParser.chunk_code
\* CodeParser.get_llama_language_for_file; "" is None
get_llama_language_for_file(filepath) ==
  LET ext == Lower(PathSuffix(filepath))
  IN  CASE ext = <<".", "t", "s">> -> "typescript"
        [] ext = <<".", "t", "s", "x">> -> "typescript"
        [] ext = <<".", "j", "s">> -> "javascript"
        [] ext = <<".", "j", "s", "x">> -> "javascript"
        [] ext = <<".", "p", "y">> -> "python"
        [] ext = <<".", "r", "b">> -> "ruby"
        [] ext = <<".", "r", "s">> -> "rust"
        [] ext = <<".", "g", "o">> -> "go"
        [] ext = <<".", "j", "a", "v", "a">> -> "java"
        [] ext = <<".", "c", "s">> -> "csharp"
        [] ext = <<".", "c", "p", "p">> -> "cpp"
        [] ext = <<".", "h", "p", "p">> -> "cpp"
        [] ext = <<".", "c">> -> "c"
        [] ext = <<".", "h">> -> "c"
        [] ext = <<".", "p", "h", "p">> -> "php"
        [] ext = <<".", "s", "w", "i", "f", "t">> -> "swift"
        [] OTHER -> ""

\* str.splitlines(): the runs of units between the "\n" of the text; a final
\* "\n" ends the last line and opens no other
SplitLines(text) ==
  LET P == Positions(text, "\n")
      n == IF text = <<>> THEN 0
           ELSE Cardinality(P) + (IF text[Len(text)] = "\n" THEN 0 ELSE 1)
      nl(j) == IF j = 0 THEN 0
               ELSE IF j > Cardinality(P) THEN Len(text) + 1
               ELSE CHOOSE q \in P : Cardinality({r \in P : r <= q}) = j
  IN  [j \in 1..n |-> Slice(text, nl(j - 1) + 1, nl(j) - 1)]

\* the walk that moves on by the lines of the piece less the overlap, with no
\* least step
RECURSIVE WalkPiecesNoFloor(_, _, _, _)
WalkPiecesNoFloor(filepath, text_chunks, lines, current_line) ==
  IF text_chunks = <<>> THEN <<>>
  ELSE LET chunk_lines == SplitLines(Head(text_chunks))
           chunk_end == Min(current_line + Len(chunk_lines), Len(lines))
       IN  <<Chunk(filepath, Head(text_chunks), Range(current_line, chunk_end - 1),
                   <<>>, <<>>)>>
           \o WalkPiecesNoFloor(filepath, Tail(text_chunks), lines,
                                current_line + Len(chunk_lines) - Overlap)

\* chunk_code: the loop over text_chunks, from current_line on
RECURSIVE WalkPieces(_, _, _, _)
WalkPieces(filepath, text_chunks, lines, current_line) ==
  IF text_chunks = <<>> THEN <<>>
  ELSE LET chunk_lines == SplitLines(Head(text_chunks))
           chunk_start == current_line
           chunk_end == Min(chunk_start + Len(chunk_lines), Len(lines))
       IN  <<Chunk(filepath, Head(text_chunks), Range(chunk_start, chunk_end - 1),
                   <<>>, <<>>)>>
           \o WalkPieces(filepath, Tail(text_chunks), lines,
                         chunk_start + Max(1, Len(chunk_lines) - Overlap))

\* the chunker that drops a file on which the splitter raises
chunk_codeDropsFile(filepath, content, split) ==
  IF get_llama_language_for_file(filepath) = ""
  THEN <<Chunk(filepath, content, NoRange, <<>>, <<>>)>>
  ELSE IF split.raises THEN <<>>
       ELSE IF split.pieces = <<>>
            THEN <<Chunk(filepath, content, NoRange, <<>>, <<>>)>>
            ELSE WalkPieces(filepath, split.pieces, SplitLines(content), 0)

\* CodeParser.chunk_code(filepath, content).  split is what the external
\* splitter does on content: it raises, or it returns split.pieces.
chunk_code(filepath, content, split) ==
  IF get_llama_language_for_file(filepath) = ""
  THEN <<Chunk(filepath, content, NoRange, <<>>, <<>>)>>
  ELSE IF split.raises \/ split.pieces = <<>>
       THEN <<Chunk(filepath, content, NoRange, <<>>, <<>>)>>
       ELSE WalkPieces(filepath, split.pieces, SplitLines(content), 0)

\* ------------------------------------------------------ the remote repository
RepoA == <<"acme/a">>
RepoB == <<"acme/b">>
BranchMain == <<"main">>
BranchDev == <<"dev">>

\* "ab/x.c", "a_/y.py", "z.txt"
PathAB == <<"a", "b", "/", "x", ".", "c">>
PathAU == <<"a", "_", "/", "y", ".", "p", "y">>
PathZ == <<"z", ".", "t", "x", "t">>
\* "e.py", a file of no byte
PathEmpty == <<"e", ".", "p", "y">>

\* the repository the CodebaseUnderstanding instance was made for; rows of
\* other repositories come from the other writers of the shared table
InstanceRepo == RepoA

\* GitHubService.get_default_branch: repo.default_branch
get_default_branch(repo) == BranchMain

\* the text of a file of the remote repository at a ref
RemoteContent(repo, ref, path) ==
  IF path = PathEmpty THEN <<>>
  ELSE IF ref = BranchMain THEN <<"x">> ELSE <<"y">>

\* the external splitter on a file that fits one piece
OnePiece(content, raises) == [raises |-> raises, pieces |-> <<content>>]

\* CodebaseUnderstanding.read_file reads through get_file_content(self.repo,
\* filepath): no ref is passed, so the file is read at the default branch
ReadRef(repo, branch) == get_default_branch(repo)

\* index_repository: chunk.repo and chunk.branch of the chunks of one file
TagChunks(file_chunks, repo, branch) ==
  [i \in 1..Len(file_chunks) |->
     [file_chunks[i] EXCEPT !.repo = repo, !.branch = branch]]

\* the loop that puts the fragments of each file before those of the files
\* listed earlier
RECURSIVE ProcessFilesReversed(_, _, _, _, _)
ProcessFilesReversed(repo, branch, listing, absent, splitFails) ==
  IF listing = <<>> THEN <<>>
  ELSE LET file_path == Head(listing)
           content == RemoteContent(repo, ReadRef(repo, branch), file_path)
           file_chunks == chunk_code(file_path, content, OnePiece(content, splitFails))
       IN  ProcessFilesReversed(repo, branch, Tail(listing), absent, splitFails)
           \o (IF file_path \in absent \/ content = <<>> THEN <<>>
               ELSE TagChunks(file_chunks, repo, branch))

\* the loop that ends at the first file it cannot read
RECURSIVE ProcessFilesAbort(_, _, _, _, _)
ProcessFilesAbort(repo, branch, listing, absent, splitFails) ==
  IF listing = <<>> THEN <<>>
  ELSE LET file_path == Head(listing)
           content == RemoteContent(repo, ReadRef(repo, branch), file_path)
           file_chunks == chunk_code(file_path, content, OnePiece(content, splitFails))
       IN  IF file_path \in absent \/ content = <<>> THEN <<>>
           ELSE TagChunks(file_chunks, repo, branch)
                \o ProcessFilesAbort(repo, branch, Tail(listing), absent, splitFails)

\* index_repository: the loop over the listed files.  absent: the files whose
\* read gives no content (read_file raises FileNotFoundError, which the loop
\* catches); splitFails: whether the splitter raises.
RECURSIVE ProcessFiles(_, _, _, _, _)
ProcessFiles(repo, branch, listing, absent, splitFails) ==
  IF listing = <<>> THEN <<>>
  ELSE LET file_path == Head(listing)
           content == RemoteContent(repo, ReadRef(repo, branch), file_path)
           file_chunks == chunk_code(file_path, content, OnePiece(content, splitFails))
       IN  (IF file_path \in absent \/ content = <<>> THEN <<>>
            ELSE TagChunks(file_chunks, repo, branch))
           \o ProcessFiles(repo, branch, Tail(listing), absent, splitFails)

\* an optional argument: None, or a value
None == [some |-> FALSE, v |-> <<>>]
Some(v) == [some |-> TRUE, v |-> v]

\* index_repository: the branch indexed
BranchOf(repo, branchArg) ==
  IF ~branchArg.some THEN get_default_branch(repo) ELSE branchArg.v

\* ------------------------------------------------------------------ actions
Idle == [op |-> "idle"]

Init ==
  /\ tableExists = FALSE
  /\ table = <<>>
  /\ index = NoIndex
  /\ call = Idle
  /\ cleared = FALSE
  /\ bulkStores = 0

\* a call of CodebaseIndex.store by any caller
Store(chunks, outcomes, addFails, indexFails) ==
  /\ call.op = "idle"
  /\ UNCHANGED bulkStores
  /\ Len(TableRows) + Len(chunks) <= MaxRows
  /\ call' = [op |-> "store",
              store |-> StoreRecord(chunks, outcomes, addFails, indexFails)]
  /\ StoreEffect(call'.store)

\* CodebaseUnderstanding.index_repository(branch) of the instance made for
\* repo.  listing is what list_files yields.
IndexRepository(repo, branchArg, listing, absent, splitFails, outcomes, addFails, indexFails) ==
  LET branch == BranchOf(repo, branchArg)
      chunks == ProcessFiles(repo, branch, listing, absent, splitFails)
      r == StoreRecord(chunks, outcomes, addFails, indexFails)
  IN  /\ call.op = "idle"
      /\ UNCHANGED bulkStores
      /\ Len(outcomes) = NumBatches(Len(chunks))
      /\ Len(TableRows) + Len(chunks) <= MaxRows
      /\ call' = [op |-> "index_repository", repo |-> repo, branch |-> branch,
                  listing |-> listing, absent |-> absent, chunks |-> chunks,
                  stored |-> chunks # <<>>, store |-> r, raised |-> r.raised]
      /\ IF chunks # <<>>
         THEN StoreEffect(call'.store)
         ELSE UNCHANGED <<tableExists, table, index, cleared>>

\* a call of CodebaseIndex.clear
ClearCall ==
  /\ call.op = "idle"
  /\ UNCHANGED bulkStores
  /\ Clear

\* a call of CodebaseIndex.retrieve by any caller
RetrieveCall(query, n, tags, filter_directory, language, embedOk, prefilter) ==
  /\ call.op = "idle"
  /\ UNCHANGED bulkStores
  /\ Retrieve(query, n, tags, filter_directory, language, embedOk, prefilter)

\* the caller has the outcome of its call and may make the next one
Return ==
  /\ call.op # "idle"
  /\ call' = Idle
  /\ UNCHANGED <<tableExists, table, index, cleared, bulkStores>>

\* ------------------------------------------------------------------- inputs
Tag(repo, branch, directory) ==
  [repo |-> repo, branch |-> branch, directory |-> directory]

\* the chunk lists passed to store
StoreInputs ==
  { <<>>,
    << Chunk(PathAB, <<"x">>, Range(0, 0), RepoA, BranchMain) >>,
    << Chunk(PathAU, <<"x", "x">>, NoRange, RepoB, BranchMain),
       Chunk(PathZ, <<"y">>, Range(0, 0), RepoB, BranchDev) >>,
    << Chunk(PathAB, <<"y">>, Range(0, 1), RepoB, BranchDev) >> }

\* the provider's outcomes for the batches of n chunks
OutcomeSeqs(n) == [1..NumBatches(n) -> Outcomes]

\* the tag lists passed to retrieve
TagInputs ==
  { <<>>,
    << Tag(RepoB, <<>>, <<>>) >>,
    << Tag(RepoB, BranchMain, <<>>) >>,
    << Tag(<<>>, BranchDev, <<>>) >>,
    << Tag(RepoA, <<>>, <<"a", "b">>), Tag(RepoB, BranchDev, <<"z">>) >>,
    << Tag(<<>>, <<>>, <<"a", "_">>), Tag(<<>>, <<>>, <<"\\">>) >> }

\* the directory overrides passed to retrieve; the last one closes the
\* literal of the LIKE and adds a condition of its own
DirectoryInputs ==
  { <<>>, <<"a", "b">>, <<"a", "_">>, <<"'", "OR", "repo", "LIKE", "'">> }

LanguageInputs == { <<>>, <<"c">> }

\* what an index run meets: the listing, the files whose read gives nothing,
\* and whether the splitter raises
RunInputs ==
  { <<<<PathAB>>, {}, FALSE>>,
    <<<<PathAB, PathZ>>, {}, FALSE>>,
    <<<<PathAB, PathZ>>, {PathAB}, TRUE>>,
    <<<<PathZ>>, {PathZ}, FALSE>>,
    <<<<PathEmpty, PathAB>>, {}, FALSE>> }

\* the branch argument of index_repository: none, a branch, the empty string
BranchInputs == {None, Some(BranchDev), Some(<<>>)}

\* the faults of the write of one store call: table.add raises, create_index raises
WriteFaults == { <<FALSE, FALSE>>, <<TRUE, FALSE>>, <<FALSE, TRUE>> }

\* the query texts, each with the order in which the store filters and searches
SearchInputs == { <<<<"x">>, TRUE>>, <<<<"y">>, FALSE>> }

Next ==
  \/ \E chunks \in StoreInputs, w \in WriteFaults :
       \E outcomes \in OutcomeSeqs(Len(chunks)) :
         Store(chunks, outcomes, w[1], w[2])
  \/ \E branchArg \in BranchInputs,
        run \in RunInputs, o \in {"ok", "raise"}, w \in WriteFaults :
       \E outcomes \in {<<>>, <<o>>} :
         IndexRepository(InstanceRepo, branchArg, run[1], run[2], run[3],
                         outcomes, w[1], w[2])
  \/ ClearCall
  \/ \E s \in SearchInputs, n \in {1, MaxN}, tags \in TagInputs,
        filter_directory \in DirectoryInputs, language \in LanguageInputs :
       RetrieveCall(s[1], n, tags, filter_directory, language, TRUE, s[2])
  \/ RetrieveCall(<<"x">>, 1, <<>>, <<>>, <<>>, FALSE, TRUE)
  \/ Return

Spec == Init /\ [][Next]_vars

\* ------------------------------------------------- stores of many chunks
\* n chunks of one file of RepoA, chunk i at line i - 1
BulkChunks(n) ==
  [i \in 1..n |->
     Chunk(PathAB, IF i % 2 = 0 THEN <<"x">> ELSE <<"y">>, Range(i - 1, i - 1),
           RepoA, BranchMain)]

\* the sizes of the chunk lists: two batches, and three batches below and at
\* the index threshold
BulkSizes == {batch_size + 1, IndexThreshold - 1, IndexThreshold}

StoreBulk(n, outcomes, addFails, indexFails) ==
  /\ call.op = "idle"
  /\ bulkStores < MaxBulkStores
  /\ bulkStores' = bulkStores + 1
  /\ Len(TableRows) + n <= MaxBulkRows
  /\ call' = [op |-> "store",
              store |-> StoreRecord(BulkChunks(n), outcomes, addFails, indexFails)]
  /\ StoreEffect(call'.store)

NextBulk ==
  \/ \E n \in BulkSizes, w \in WriteFaults :
       \E outcomes \in [1..NumBatches(n) -> {"ok", "raise"}] :
         StoreBulk(n, outcomes, w[1], w[2])
  \/ ClearCall
  \/ \E n \in {1, MaxN} : RetrieveCall(<<"x">>, n, <<>>, <<>>, <<>>, TRUE, TRUE)
  \/ Return

SpecBulk == Init /\ [][NextBulk]_vars

\* ------------------------------------------------------- calls of chunk_code
\* the lines of the files given to chunk_code, one letter each
Letters ==
  << "a", "b", "c", "d", "e", "f", "g", "h", "i", "j", "k", "l", "m",
     "n", "o", "p", "q", "r", "s", "t", "u", "v", "w", "z" >>

\* lines as one text, "\n" between them
RECURSIVE JoinLines(_)
JoinLines(lines) ==
  IF lines = <<>> THEN <<>>
  ELSE IF Len(lines) = 1 THEN lines[1]
  ELSE lines[1] \o <<"\n">> \o JoinLines(Tail(lines))

\* the file of k lines
FileText(k) == JoinLines([i \in 1..k |-> <<Letters[i]>>])

\* the contents chunk_code is called with: files of one line, two lines (with
\* and without final newline) and MaxLines lines
ContentInputs ==
  { FileText(1), FileText(2), FileText(2) \o <<"\n">>, FileText(MaxLines) }

\* the line counts of the pieces the splitter returns, and the number of lines
\* a piece shares with the one before it
PieceLens == {0, 1, 2, Overlap + 2}
PieceOverlaps == {0, Overlap}

\* l lines of the file from line s on (1-based), as far as the file goes
RunText(lines, s, l) == JoinLines(Slice(lines, s, Min(s + l - 1, Len(lines))))

\* the pieces of a splitter whose piece i has lens[i] lines and starts
\* ovs[i-1] lines before the end of piece i-1, the first piece at line s
RECURSIVE PiecesFrom(_, _, _, _)
PiecesFrom(lines, lens, ovs, s) ==
  IF lens = <<>> THEN <<>>
  ELSE <<RunText(lines, s, Head(lens))>>
       \o (IF Len(lens) = 1 THEN <<>>
           ELSE PiecesFrom(lines, Tail(lens), Tail(ovs),
                           s + Max(0, Head(lens) - Head(ovs))))

\* what splitter.split_text(content) may do: raise, return no piece, or
\* return pieces
SplitInputs(content) ==
  { [raises |-> TRUE, pieces |-> <<>>, lens |-> <<>>, ovs |-> <<>>],
    [raises |-> FALSE, pieces |-> <<>>, lens |-> <<>>, ovs |-> <<>>] }
  \cup UNION { { [raises |-> FALSE,
                  pieces |-> PiecesFrom(SplitLines(content), lens, ovs, 1),
                  lens |-> lens, ovs |-> ovs] :
                  lens \in [1..m -> PieceLens], ovs \in [1..(m - 1) -> PieceOverlaps] } :
              m \in 1..MaxPieces }

\* a call of CodeParser.chunk_code; every path of the function returns a list
ChunkCodeCall(filepath, content, split) ==
  /\ call.op = "idle"
  /\ call' = [op |-> "chunk_code", filepath |-> filepath, content |-> content,
              split |-> split, raised |-> FALSE,
              result |-> chunk_code(filepath, content, split)]
  /\ UNCHANGED <<tableExists, table, index, cleared, bulkStores>>

NextChunk ==
  \/ \E filepath \in {PathAB, PathZ}, content \in ContentInputs :
       \E split \in SplitInputs(content) : ChunkCodeCall(filepath, content, split)
  \/ Return

SpecChunk == Init /\ [][NextChunk]_vars

\* ------------------------------------------------ GitHubService.list_files
\* str.endswith
EndsWith(s, suffix) ==
  Len(suffix) <= Len(s) /\ Slice(s, Len(s) - Len(suffix) + 1, Len(s)) = suffix

\* `sub in s`
Contains(s, sub) ==
  \E i \in 0..(Len(s) - Len(sub)) : Slice(s, i + 1, i + Len(sub)) = sub

\* s.replace(old, ""), occurrences taken from the left
RECURSIVE RemoveAll(_, _)
RemoveAll(s, old) ==
  IF s = <<>> THEN <<>>
  ELSE IF StartsWith(s, old) THEN RemoveAll(Slice(s, Len(old) + 1, Len(s)), old)
  ELSE <<Head(s)>> \o RemoveAll(Tail(s), old)

\* pattern.split('.')[-1]
LastDotPart(pattern) ==
  IF Positions(pattern, ".") = {} THEN pattern
  ELSE Slice(pattern, SetMax(Positions(pattern, ".")) + 1, Len(pattern))

\* the patterns '**/*.<ext>' and '**/<name>/**'
ExtPattern(ext) == <<"*", "*", "/", "*", ".">> \o ext
DirPattern(name) == <<"*", "*", "/">> \o name \o <<"/", "*", "*">>

\* list_files: the test of one include pattern on a file path
include_test(pattern, file_path) ==
  \/ StartsWith(pattern, <<"*", "*", "/", "*", ".">>) /\ EndsWith(file_path, LastDotPart(pattern))
  \/ StartsWith(pattern, <<"*", ".">>) /\ EndsWith(file_path, LastDotPart(pattern))
  \/ EndsWith(file_path, pattern)

\* list_files: should_include
should_include(file_path, include_patterns) ==
  \E k \in 1..Len(include_patterns) : include_test(include_patterns[k], file_path)

\* the test that looks for the name of the pattern anywhere in the path
exclude_testSubstring(pattern, file_path) ==
  Contains(file_path, RemoveAll(RemoveAll(pattern, <<"*", "*", "/">>), <<"/", "*", "*">>))

\* list_files: the test of one exclude pattern on a file path
exclude_test(pattern, file_path) ==
  Contains(<<"/">> \o file_path \o <<"/">>,
           <<"/">> \o RemoveAll(RemoveAll(pattern, <<"*", "*", "/">>), <<"/", "*", "*">>)
                   \o <<"/">>)

\* list_files: should_exclude
should_exclude(file_path, exclude_patterns) ==
  \E k \in 1..Len(exclude_patterns) : exclude_test(exclude_patterns[k], file_path)

\* list_files: the lists used when no patterns are passed
DefaultInclude ==
  << ExtPattern(<<"t", "s">>), ExtPattern(<<"t", "s", "x">>), ExtPattern(<<"j", "s">>),
     ExtPattern(<<"j", "s", "x">>), ExtPattern(<<"p", "y">>) >>
DefaultExclude ==
  << DirPattern(<<"n", "o", "d", "e", "_", "m", "o", "d", "u", "l", "e", "s">>),
     DirPattern(<<"d", "i", "s", "t">>), DirPattern(<<".", "g", "i", "t">>) >>

\* index_repository: the lists it passes when it is given none
IndexInclude ==
  DefaultInclude
  \o << ExtPattern(<<"r", "b">>), ExtPattern(<<"r", "s">>), ExtPattern(<<"g", "o">>),
        ExtPattern(<<"j", "a", "v", "a">>), ExtPattern(<<"c", "s">>),
        ExtPattern(<<"c", "p", "p">>), ExtPattern(<<"h", "p", "p">>),
        ExtPattern(<<"c">>), ExtPattern(<<"h">>), ExtPattern(<<"p", "h", "p">>),
        ExtPattern(<<"e", "l">>), ExtPattern(<<"e", "x">>), ExtPattern(<<"e", "x", "s">>),
        ExtPattern(<<"e", "l", "m">>), ExtPattern(<<"m", "l">>),
        ExtPattern(<<"m", "l", "i">>), ExtPattern(<<"q", "l">>) >>
IndexExclude ==
  DefaultExclude
  \o << DirPattern(<<"b", "u", "i", "l", "d">>), DirPattern(<<"t", "a", "r", "g", "e", "t">>),
        DirPattern(<<"_", "_", "p", "y", "c", "a", "c", "h", "e", "_", "_">>),
        ExtPattern(<<"m", "i", "n", ".", "j", "s">>),
        ExtPattern(<<"m", "i", "n", ".", "c", "s", "s">>) >>

\* an entry of a directory of the remote tree: content.type, content.path
Dir(path) == [type |-> "dir", path |-> path]
File(path) == [type |-> "file", path |-> path]

\* "copy", "m.min.js", "dist/b.js"
PathCopy == <<"c", "o", "p", "y">>
PathMin == <<"m", ".", "m", "i", "n", ".", "j", "s">>
PathDistB == <<"d", "i", "s", "t", "/", "b", ".", "j", "s">>
\* "dist.py", and "a_/dist", a file called dist
PathDistPy == <<"d", "i", "s", "t", ".", "p", "y">>
PathAUDist == <<"a", "_", "/", "d", "i", "s", "t">>
DirAB == <<"a", "b">>
DirAU == <<"a", "_">>
DirDist == <<"d", "i", "s", "t">>

\* remote trees: what repo.get_contents(path) lists for each directory path
TreeOne ==
  (<<>> :> <<Dir(DirAB), File(PathZ), File(PathCopy), Dir(DirDist), File(PathMin),
             File(PathDistPy)>>)
  @@ (DirAB :> <<File(PathAB)>>)
  @@ (DirDist :> <<File(PathDistB)>>)
TreeTwo ==
  (<<>> :> <<Dir(DirAU), File(PathZ)>>)
  @@ (DirAU :> <<File(PathAU), File(PathAUDist)>>)

\* list_files(repo, path, ref, include_patterns, exclude_patterns): the paths
\* it yields, in order.  tree is the repository at ref; failing are the
\* directories whose repo.get_contents raises: the except prints and returns,
\* and the generator of that directory ends.
RECURSIVE list_files(_, _, _, _, _)
RECURSIVE WalkContents(_, _, _, _, _)
list_files(tree, path, failing, include_patterns, exclude_patterns) ==
  LET inc == IF ~include_patterns.some THEN DefaultInclude ELSE include_patterns.v
      exc == IF ~exclude_patterns.some THEN DefaultExclude ELSE exclude_patterns.v
  IN  IF path \in failing THEN <<>>
      ELSE WalkContents(tree, tree[path], failing, inc, exc)

\* list_files: the loop `while contents`
WalkContents(tree, contents, failing, inc, exc) ==
  IF contents = <<>> THEN <<>>
  ELSE LET content == Head(contents)
       IN  (IF content.type = "dir"
            THEN list_files(tree, content.path, failing, Some(inc), Some(exc))
            ELSE IF should_include(content.path, inc) /\ ~should_exclude(content.path, exc)
                 THEN <<content.path>>
                 ELSE <<>>)
           \o WalkContents(tree, Tail(contents), failing, inc, exc)

\* list_files: whether the except of repo.get_contents was taken, for path or
\* below it
RECURSIVE ListingFailed(_, _, _)
ListingFailed(tree, path, failing) ==
  \/ path \in failing
  \/ \E i \in 1..Len(tree[path]) :
       tree[path][i].type = "dir" /\ ListingFailed(tree, tree[path][i].path, failing)

\* a consumer iterates list_files to its end.  The generator ends by
\* returning, after a failed listing as after the last entry: nothing is
\* raised to the consumer.
ListFilesCall(tree, failing, include_patterns, exclude_patterns) ==
  /\ call.op = "idle"
  /\ call' = [op |-> "list_files", tree |-> tree, failing |-> failing,
              include_patterns |-> include_patterns,
              exclude_patterns |-> exclude_patterns,
              yielded |-> list_files(tree, <<>>, failing, include_patterns, exclude_patterns),
              failed |-> ListingFailed(tree, <<>>, failing),
              raised |-> FALSE]
  /\ UNCHANGED <<tableExists, table, index, cleared, bulkStores>>

TreeInputs == {TreeOne, TreeTwo}
FailingInputs == SUBSET {<<>>, DirAB, DirDist}
IncludeInputs ==
  { None, Some(IndexInclude), Some(<<ExtPattern(<<"p", "y">>)>>), Some(<<PathZ, DirDist>>) }
ExcludeInputs == { None, Some(IndexExclude), Some(<<>>) }

NextWalk ==
  \/ \E tree \in TreeInputs, failing \in FailingInputs,
        include_patterns \in IncludeInputs, exclude_patterns \in ExcludeInputs :
       ListFilesCall(tree, failing, include_patterns, exclude_patterns)
  \/ Return

SpecWalk == Init /\ [][NextWalk]_vars

\* ------------------------------------- retrieve beside a store or a clear
\* The calls are coroutines of one event loop: a coroutine runs until an await
\* that suspends it.  retrieve looks the table up (get_table, which suspends
\* nowhere), then awaits embeddings_provider([query]), then searches the table
\* object it looked up.  While it waits for the embedding, the writes of other
\* coroutines take place.

\* retrieve up to its await of the embedding: get_table opens the table, or
\* creates it, and the coroutine keeps the table object
RetrieveBegin(query, n) ==
  /\ call.op = "idle"
  /\ tableExists' = TRUE
  /\ table' = TableRows
  /\ index' = IF tableExists THEN index ELSE NoIndex
  /\ call' = [op |-> "retrieve_await", query |-> query, n |-> n,
              lookup |-> TableRows, dropped |-> FALSE]
  /\ UNCHANGED <<cleared, bulkStores>>

\* the table.add of a store of another coroutine, while retrieve waits
ConcurrentStore(chunks) ==
  /\ call.op = "retrieve_await"
  /\ chunks # <<>>
  /\ Len(TableRows) + Len(chunks) <= MaxRows
  /\ StoreEffect(StoreRecord(chunks, [k \in 1..NumBatches(Len(chunks)) |-> "ok"], FALSE, FALSE))
  /\ UNCHANGED <<call, bulkStores>>

\* the drop_table of a clear of another coroutine, while retrieve waits
ConcurrentClear ==
  /\ call.op = "retrieve_await"
  /\ tableExists
  /\ tableExists' = FALSE
  /\ table' = <<>>
  /\ index' = NoIndex
  /\ cleared' = TRUE
  /\ call' = [call EXCEPT !.dropped = TRUE]
  /\ UNCHANGED bulkStores

\* what the search on the table object kept by retrieve can do: after a drop
\* the files of the table it was opened on are gone and the search raises,
\* unless the rows were still at hand; after writes only, it reads the table
\* as it was opened or as it is now
SearchOutcomes(dropped) == IF dropped THEN {"raise", "stale"} ELSE {"stale", "fresh"}

\* retrieve from the return of the embedding on: the search on the table
\* object of the lookup, with no except around it and no second lookup
RetrieveSearch(outcome) ==
  /\ call.op = "retrieve_await"
  /\ outcome \in SearchOutcomes(call.dropped)
  /\ LET rows == IF outcome = "fresh" THEN TableRows ELSE call.lookup
         results == IF outcome = "raise" THEN <<>>
                    ELSE Search(rows, Embed(call.query), <<>>, call.n, TRUE)
     IN  call' = [op |-> "retrieve", query |-> call.query, n |-> call.n,
                  tags |-> <<>>, filter_directory |-> <<>>, language |-> <<>>,
                  embedOk |-> TRUE, prefilter |-> TRUE, filter |-> <<>>,
                  raised |-> (outcome = "raise"), found |-> results,
                  result |-> ToChunks(results),
                  lookup |-> call.lookup, dropped |-> call.dropped,
                  after |-> TableRows]
  /\ UNCHANGED <<tableExists, table, index, cleared, bulkStores>>

NextConc ==
  \/ \E chunks \in StoreInputs :
       Store(chunks, [k \in 1..NumBatches(Len(chunks)) |-> "ok"], FALSE, FALSE)
  \/ ClearCall
  \/ \E s \in SearchInputs, n \in {1, MaxN} : RetrieveBegin(s[1], n)
  \/ \E chunks \in StoreInputs : ConcurrentStore(chunks)
  \/ ConcurrentClear
  \/ \E outcome \in {"raise", "stale", "fresh"} : RetrieveSearch(outcome)
  \/ Return

SpecConc == Init /\ [][NextConc]_vars

\* ---------------------------------------------- the first store of a corpus
\* the sizes of the corpora stored into an empty table
CorpusSizes == {10, 500} \cup BulkSizes

\* a call of CodebaseIndex.store with a whole corpus, the table holding no row
StoreCorpus(n, outcomes, addFails, indexFails) ==
  /\ call.op = "idle"
  /\ TableRows = <<>>
  /\ call' = [op |-> "store",
              store |-> StoreRecord(BulkChunks(n), outcomes, addFails, indexFails)]
  /\ StoreEffect(call'.store)
  /\ UNCHANGED bulkStores

NextCorpus ==
  \/ \E n \in CorpusSizes, w \in WriteFaults :
       \E outcomes \in [1..NumBatches(n) -> {"ok", "raise"}] :
         StoreCorpus(n, outcomes, w[1], w[2])
  \/ ClearCall
  \/ Return

SpecCorpus == Init /\ [][NextCorpus]_vars

\* ------------------------------------------------ store, batch by batch
\* store up to its first await of the provider: get_table opens or creates
\* the table, all_rows is empty
StoreBegin(n) ==
  /\ call.op = "idle"
  /\ bulkStores < MaxBulkStores
  /\ bulkStores' = bulkStores + 1
  /\ Len(TableRows) + n <= MaxBulkRows
  /\ tableExists' = TRUE
  /\ table' = TableRows
  /\ index' = IF tableExists THEN index ELSE NoIndex
  /\ UNCHANGED cleared
  /\ call' = [op |-> "store_await", chunks |-> BulkChunks(n), outcomes |-> <<>>,
              before |-> TableRows]

\* the step that adds the rows of a batch to the table as soon as they are made
StoreBatchWrites(outcome) ==
  /\ call.op = "store_await"
  /\ Len(call.outcomes) < NumBatches(Len(call.chunks))
  /\ call' = [call EXCEPT !.outcomes = Append(@, outcome)]
  /\ table' = table \o BatchRows(BatchOf(call.chunks, Len(call.outcomes) + 1), outcome)
  /\ UNCHANGED <<tableExists, index, cleared, bulkStores>>

\* store: one turn of the batch loop, the await of the provider returning or
\* raising an Exception; the rows go to all_rows
StoreBatch(outcome) ==
  /\ call.op = "store_await"
  /\ Len(call.outcomes) < NumBatches(Len(call.chunks))
  /\ call' = [call EXCEPT !.outcomes = Append(@, outcome)]
  /\ UNCHANGED <<tableExists, table, index, cleared, bulkStores>>

\* store is cancelled, or the process dies, at an await of the provider:
\* CancelledError is not an Exception, the except of the loop lets it through
\* and all_rows is dropped with the frame
StoreCancel ==
  /\ call.op = "store_await"
  /\ Len(call.outcomes) < NumBatches(Len(call.chunks))
  /\ call' = [call EXCEPT !.op = "store_cancelled"]
  /\ UNCHANGED <<tableExists, table, index, cleared, bulkStores>>

\* store after the loop: the one table.add and the index
StoreWrite(addFails, indexFails) ==
  /\ call.op = "store_await"
  /\ Len(call.outcomes) = NumBatches(Len(call.chunks))
  /\ call' = [op |-> "store",
              store |-> StoreRecord(call.chunks, call.outcomes, addFails, indexFails)]
  /\ StoreEffect(call'.store)
  /\ UNCHANGED bulkStores

NextSteps ==
  \/ \E n \in {batch_size + 1, 2 * batch_size + 1} : StoreBegin(n)
  \/ \E outcome \in {"ok", "raise"} : StoreBatch(outcome)
  \/ StoreCancel
  \/ \E w \in WriteFaults : StoreWrite(w[1], w[2])
  \/ ClearCall
  \/ Return

SpecSteps == Init /\ [][NextSteps]_vars

\* ------------------------------------------------- search_similar_code
\* search_similar_code: the ContextItem made of each chunk
ContextItems(chunks) ==
  [i \in 1..Len(chunks) |->
     [name |-> chunks[i].filepath, content |-> chunks[i].content,
      lines |-> <<chunks[i].range.start.line, chunks[i].range.end.line>>,
      uri |-> chunks[i].filepath]]

\* CodebaseUnderstanding.search_similar_code of the instance made for repo:
\* retrieve with one tag, the repo of the instance and its default branch
SearchSimilarCode(repo, query, n_results, filter_directory, language, prefilter) ==
  RetrieveCall(query, n_results, <<Tag(repo, get_default_branch(repo), <<>>)>>,
               filter_directory, language, TRUE, prefilter)

NextSearch ==
  \/ \E branchArg \in {None, Some(BranchDev)}, run \in RunInputs, w \in WriteFaults :
       \E outcomes \in {<<>>, <<"ok">>} :
         IndexRepository(InstanceRepo, branchArg, run[1], run[2], run[3],
                         outcomes, w[1], w[2])
  \/ ClearCall
  \/ \E s \in SearchInputs, n \in {1, MaxN},
        filter_directory \in {<<>>, <<"a", "b">>}, language \in LanguageInputs :
       SearchSimilarCode(InstanceRepo, s[1], n, filter_directory, language, s[2])
  \/ Return

SpecSearch == Init /\ [][NextSearch]_vars

\* ------------------------------------- CodeGenerator.generate_implementation
\* what the text of a model response can be for the parsing of the loop:
\* without "FILE:" or "CONTENT:"; naming the file asked for; naming a file
\* that is not planned; with "FILE:" and "CONTENT:" but without "ACTION:"
ResponseKinds == {"invalid", "asked", "other", "no_action"}

\* the responses the model gives to the calls of one run, the last one
\* repeated for every further call
ScriptInputs == UNION { [1..m -> ResponseKinds] : m \in 1..2 }

\* the files of the plan
PlanInputs == { {}, {"f"}, {"f", "g"} }

\* generate_implementation from the parsed plan to the loop
GenBegin(planned_files, max_files, script) ==
  /\ call.op = "idle"
  /\ call' = [op |-> "generate", remaining_files |-> planned_files,
              changes |-> <<>>, max_files |-> max_files, script |-> script,
              completions |-> 0, raised |-> FALSE]
  /\ UNCHANGED <<tableExists, table, index, cleared, bulkStores>>

\* one turn of `while remaining_files and len(changes) < max_files`:
\* file_to_change is the element the set gives first, the model is asked for
\* it (completions counts the requests modulo 2) and the response is parsed
GenStep ==
  /\ call.op = "generate"
  /\ call.remaining_files # {}
  /\ Len(call.changes) < call.max_files
  /\ \E file_to_change \in call.remaining_files :
       LET response == Head(call.script)
           rest == IF Len(call.script) > 1 THEN Tail(call.script) ELSE call.script
           file_path == IF response = "asked" THEN file_to_change ELSE "other"
           sent == [call EXCEPT !.script = rest, !.completions = (@ + 1) % 2]
       IN  call' =
             CASE response = "invalid" -> sent
               [] response = "no_action" ->
                    [sent EXCEPT !.op = "generated", !.raised = TRUE]
               [] OTHER ->
                    [sent EXCEPT !.remaining_files = @ \ {file_path},
                                 !.changes = Append(@, file_path)]
  /\ UNCHANGED <<tableExists, table, index, cleared, bulkStores>>

\* the loop condition is false: return changes
GenReturn ==
  /\ call.op = "generate"
  /\ ~(call.remaining_files # {} /\ Len(call.changes) < call.max_files)
  /\ call' = [call EXCEPT !.op = "generated"]
  /\ UNCHANGED <<tableExists, table, index, cleared, bulkStores>>

NextGen ==
  \/ \E planned_files \in PlanInputs, max_files \in 0..MaxFiles, script \in ScriptInputs :
       GenBegin(planned_files, max_files, script)
  \/ GenStep
  \/ GenReturn
  \/ (call.op = "generated" /\ Return)

\* the coroutine is run on: a turn of the loop or the return that can be
\* taken is taken
SpecGen == Init /\ [][NextGen]_vars /\ WF_vars(GenStep) /\ WF_vars(GenReturn)

\* --------------------------------------------- GitHubService.get_file_content
\* `max_retries = 3`
max_retries == 3

\* str.strip(c): the text without its leading and trailing units c
StripChar(s, c) ==
  LET keep == {i \in 1..Len(s) : s[i] # c}
  IN  IF keep = {} THEN <<>>
      ELSE SubSeq(s, CHOOSE i \in keep : \A j \in keep : i <= j,
                     CHOOSE i \in keep : \A j \in keep : j <= i)

\* re.sub(r'[^a-zA-Z0-9/._-]', '', normalized_path), on the units of FetchPaths
clean_path(normalized_path) ==
  SelectSeq(normalized_path, LAMBDA u : u \in {"a", "b", "/", ".", "_", "-"})

wait_timeFlat(attempt) == 5

\* `wait_time = (2 ** attempt) * 5`
wait_time(attempt) == (2 ^ attempt) * 5

\* the paths asked for (the unit "backtick" is the character U+0060): a plain
\* one, one in backticks, one whose backticks the strip of the slashes
\* uncovers, one with a blank, one with a backslash
FetchPaths ==
  { <<"a">>, <<"backtick", "a", "backtick">>, <<"/", "backtick", "a", "backtick">>,
    <<"a", " ", "b">>, <<"\\", "a">> }

\* what self.github.get_rate_limit() answers at line 135: it raises, or it
\* gives the calls remaining and the seconds until the reset
RateInputs ==
  [raises : BOOLEAN, remaining : {0, 1, 2}, reset_in_seconds : {300, 301}]

\* get_file_content down to the retry loop: the path is normalized, the rate
\* limit is asked for, and a limit nearly used up is waited for (the sleep
\* ends or is cancelled) or ends the call
GetBegin(path, rate, cancelled) ==
  LET normalized_path == ReplaceBackslash(StripChar(StripChar(path, "backtick"), "/"))
      fetch == [op |-> "fetch", normalized_path |-> normalized_path, rate |-> rate,
                outcomes |-> <<>>, alts |-> 0, cleans |-> 0, found |-> "none",
                waits |-> <<>>, reset_wait |-> 0, limit_failed |-> FALSE,
                result |-> "None", raised |-> "none"]
      done == [fetch EXCEPT !.op = "fetched"]
  IN  /\ call.op = "idle"
      /\ call' =
           IF rate.raises THEN done
           ELSE IF rate.remaining <= 1
                THEN IF rate.reset_in_seconds <= 300
                     THEN IF cancelled
                          THEN [done EXCEPT !.raised = "CancelledError"]
                          ELSE [fetch EXCEPT !.reset_wait = rate.reset_in_seconds + 1]
                     ELSE done
                ELSE fetch
      /\ UNCHANGED <<tableExists, table, index, cleared, bulkStores>>

\* one turn of `for attempt in range(max_retries)`: the fetch of the
\* normalized path gives the file, nothing, a directory, or fails with a 404,
\* a 403 or another error (one of decoding included); alt and clean say
\* whether the fetch of the alternative and of the cleaned path gives a file,
\* limitFails whether get_rate_limit() raises in the handler of the 403,
\* cancelled whether the sleep before the retry is cancelled
GetAttempt(outcome, alt, clean, limitFails, cancelled) ==
  LET attempt == Len(call.outcomes)
      seen == [call EXCEPT !.outcomes = Append(@, outcome)]
      done == [seen EXCEPT !.op = "fetched"]
      retry == IF attempt < max_retries - 1
               THEN IF cancelled
                    THEN [done EXCEPT !.raised = "CancelledError"]
                    ELSE [seen EXCEPT !.waits = Append(@, wait_time(attempt))]
               ELSE done
  IN  /\ call.op = "fetch"
      /\ attempt < max_retries
      /\ call' =
           CASE outcome = "file" -> [done EXCEPT !.result = "content"]
             [] outcome \in {"none", "dir"} -> done
             [] outcome = "404" ->
                  IF alt
                  THEN [done EXCEPT !.alts = @ + 1, !.found = "alt", !.result = "content"]
                  ELSE IF clean_path(call.normalized_path) # call.normalized_path
                       THEN IF clean
                            THEN [done EXCEPT !.alts = @ + 1, !.cleans = @ + 1,
                                              !.found = "clean", !.result = "content"]
                            ELSE [done EXCEPT !.alts = @ + 1, !.cleans = @ + 1]
                       ELSE [done EXCEPT !.alts = @ + 1]
             [] outcome = "403" ->
                  IF limitFails THEN [done EXCEPT !.limit_failed = TRUE] ELSE retry
             [] OTHER -> retry
      /\ UNCHANGED <<tableExists, table, index, cleared, bulkStores>>

NextFetch ==
  \/ \E path \in FetchPaths, rate \in RateInputs, cancelled \in BOOLEAN :
       GetBegin(path, rate, cancelled)
  \/ \E outcome \in {"file", "none", "dir", "404", "403", "error"},
        alt \in BOOLEAN, clean \in BOOLEAN, limitFails \in BOOLEAN, cancelled \in BOOLEAN :
       GetAttempt(outcome, alt, clean, limitFails, cancelled)
  \/ (call.op = "fetched" /\ Return)

SpecFetch == Init /\ [][NextFetch]_vars

\* ------------------------------------------------------------------- claims
\* the last call was a store, made directly or by an index run
StoreDone == call.op \in {"store", "index_repository"}

\* the rows the last store call added to the table
Written == Slice(table, Len(call.store.before) + 1, Len(table))

\* the row is the row of the chunk
RowOfChunk(row, chunk) ==
  /\ row.filepath = chunk.filepath
  /\ row.content = chunk.content
  /\ row.repo = chunk.repo
  /\ row.branch = chunk.branch

\* C1: a retrieve whose first tag names a repo returns only fragments of that
\* repo, whatever the other arguments.
C1_RepoIsolation ==
  (call.op = "retrieve" /\ call.tags # <<>> /\ call.tags[1].repo # <<>>)
    => \A i \in 1..Len(call.result) : call.result[i].repo = call.tags[1].repo

\* C2: when the provider returns, for a batch, another number of vectors than
\* the batch has fragments, store writes no row of that batch.
C2_LengthMismatchGuard ==
  StoreDone =>
    \A i \in 1..Len(call.store.chunks) :
      call.store.outcomes[((i - 1) \div 100) + 1] \in {"short", "long"}
        => \A j \in 1..Len(Written) : ~RowOfChunk(Written[j], call.store.chunks[i])

\* C3: batches are consecutive runs of at most 100 fragments; the rows written
\* are those of the batches whose embedding call did not raise, in order; a
\* raising batch makes store raise in no case (only table.add does); when
\* every batch raises nothing is written and no index is built.
C3_BatchFailureSkip ==
  call.op = "store" =>
    LET st == call.store
        n == Len(st.chunks)
        kept == SelectSeq([i \in 1..n |-> i],
                          LAMBDA i : st.outcomes[((i - 1) \div 100) + 1] # "raise")
    IN  /\ st.raised => st.addFails
        /\ ~st.addFails =>
             /\ Len(Written) = Len(kept)
             /\ \A j \in 1..Len(kept) : RowOfChunk(Written[j], st.chunks[kept[j]])
                                        /\ Written[j].start_line = kept[j] - 1
        /\ kept = <<>> => table = st.before /\ st.built = NoIndex /\ ~st.raised

\* C3 witness: a store of three batches whose second batch raised, written
C3_Witness ==
  /\ call.op = "store"
  /\ call.store.outcomes = <<"ok", "raise", "ok">>
  /\ call.store.wrote
  /\ Len(Written) > 100

\* C4: no two rows of the table have the same (repo, branch, filepath,
\* start_line), and an index run that writes leaves no earlier row of its
\* (repo, branch) in the table.
C4_RowIdentityUnique ==
  /\ \A i, j \in 1..Len(table) :
       i # j => <<table[i].repo, table[i].branch, table[i].filepath, table[i].start_line>>
                # <<table[j].repo, table[j].branch, table[j].filepath, table[j].start_line>>
  /\ (call.op = "index_repository" /\ call.store.wrote) =>
       \A i \in 1..Len(call.store.before) :
         ~(call.store.before[i].repo = call.repo /\ call.store.before[i].branch = call.branch)

\* C5: clear completes without error and leaves no row, with or without a
\* table; a retrieve after stores and a clear returns the empty list without
\* raising (given the query could be embedded).
C5_ClearRoundTrip ==
  /\ call.op = "clear" => ~call.raised /\ table = <<>>
  /\ (call.op = "retrieve" /\ cleared /\ call.embedOk)
       => ~call.raised /\ call.result = <<>>

\* C6: the index a writing store builds is the small one exactly when the
\* table then holds fewer than 256 rows, the partitioned one exactly when it
\* holds 256 or more.
C6_IndexByTotalRows ==
  (call.op = "store" /\ call.store.wrote /\ ~call.store.indexFailed) =>
    /\ call.store.built.kind = "small" <=> Len(table) < 256
    /\ call.store.built.kind = "partitioned" <=> Len(table) >= 256

\* C7: when create_index raises, store returns without raising and its rows
\* are in the table; a table without index answers a retrieve from its rows.
C7_IndexAdvisory ==
  /\ (StoreDone /\ call.store.indexFailed) =>
       /\ ~call.store.raised
       /\ call.store.all_rows # <<>>
       /\ table = call.store.before \o call.store.all_rows
  /\ (call.op = "retrieve" /\ index.kind = "none" /\ ~call.raised /\ call.filter = <<>>)
       => /\ Len(call.result) = Min(call.n, Len(table))
          /\ \A i \in 1..Len(call.result) :
               \E j \in 1..Len(table) : RowOfChunk(table[j], call.result[i])

\* C7 witness: create_index raised on the partitioned path
C7_Witness ==
  /\ call.op = "store"
  /\ call.store.indexFailed
  /\ Len(call.store.all_rows) >= 256

\* C8: a retrieve with n = k returns at most k fragments, one per row the
\* search gave and in the order of those rows, which is by increasing distance
\* of the stored vector to the query vector.
C8_TopNOrdered ==
  (call.op = "retrieve" /\ ~call.raised) =>
    /\ Len(call.result) <= call.n
    /\ Len(call.result) = Len(call.found)
    /\ \A i \in 1..Len(call.result) :
         /\ RowOfChunk(call.found[i], call.result[i])
         /\ call.result[i].range.start.line = call.found[i].start_line
    /\ \A i, j \in 1..Len(call.found) :
         i < j => Distance(call.found[i].embedding, Embed(call.query))
                  <= Distance(call.found[j].embedding, Embed(call.query))

\* C8 witness: two fragments returned, the nearer one stored after the other
C8_Witness ==
  /\ call.op = "retrieve"
  /\ Len(call.result) = 2
  /\ Len(table) = 2
  /\ call.found[1] = table[2]
  /\ Distance(call.found[1].embedding, Embed(call.query))
     < Distance(call.found[2].embedding, Embed(call.query))

\* C9: a retrieve whose first tag names a branch returns only fragments of
\* that branch, whether or not the tag names a repo (stated on the calls that
\* pass tags only).
C9_BranchFilter ==
  (/\ call.op = "retrieve"
   /\ call.tags # <<>>
   /\ call.tags[1].branch # <<>>
   /\ call.filter_directory = <<>>
   /\ call.language = <<>>)
    => \A i \in 1..Len(call.result) : call.result[i].branch = call.tags[1].branch

\* the directories of the tags, "\" as "/", that are neither empty nor "/"
TagDirectories(tags) ==
  {ReplaceBackslash(tags[k].directory) : k \in 1..Len(tags)} \ {<<>>, <<"/">>}

\* C10: with a directory override every returned filepath starts with it;
\* without one, every returned filepath starts with one of the tags'
\* directories when there is one (stated on the calls whose override holds no
\* quote).
C10_DirectoryPredicate ==
  (call.op = "retrieve" /\ "'" \notin {call.filter_directory[k] : k \in 1..Len(call.filter_directory)})
    => IF call.filter_directory # <<>>
       THEN \A i \in 1..Len(call.result) :
              StartsWith(call.result[i].filepath, call.filter_directory)
       ELSE TagDirectories(call.tags) # {} =>
              \A i \in 1..Len(call.result) :
                \E d \in TagDirectories(call.tags) : StartsWith(call.result[i].filepath, d)

\* the last call was a chunk_code whose splitter returned pieces that were walked
Walked ==
  /\ call.op = "chunk_code"
  /\ get_llama_language_for_file(call.filepath) # ""
  /\ ~call.split.raises
  /\ call.split.pieces # <<>>

\* C11: for a file without splitter language, and for a file on which the
\* splitter raises or returns no piece, chunk_code returns exactly one
\* fragment, with the whole input as content and no range; chunk_code never
\* raises and never returns the empty list.
C11_WholeFileFallback ==
  call.op = "chunk_code" =>
    /\ ~call.raised
    /\ call.result # <<>>
    /\ ~Walked => call.result = <<Chunk(call.filepath, call.content, NoRange, <<>>, <<>>)>>

\* C11 witness: the splitter raised on a file that has a splitter language
C11_Witness ==
  /\ call.op = "chunk_code"
  /\ get_llama_language_for_file(call.filepath) # ""
  /\ call.split.raises
  /\ Len(call.result) = 1

\* C12: the first fragment starts at line 0 and fragment i at the start of
\* fragment i-1 plus max(1, lines of piece i-1 minus 15), so start lines
\* increase strictly, also over pieces of fewer than 15 lines or of none.
C12_StartLinesIncrease ==
  Walked =>
    /\ Len(call.result) = Len(call.split.pieces)
    /\ call.result[1].range.start.line = 0
    /\ \A i \in 2..Len(call.result) :
         /\ call.result[i].range.start.line
              = call.result[i - 1].range.start.line
                + Max(1, Len(SplitLines(call.split.pieces[i - 1])) - 15)
         /\ call.result[i].range.start.line > call.result[i - 1].range.start.line

\* C12 witness: a piece of more than 16 lines, then a piece of no line, then another
C12_Witness ==
  /\ Walked
  /\ Len(call.result) = 3
  /\ Len(SplitLines(call.split.pieces[1])) > 16
  /\ Len(SplitLines(call.split.pieces[2])) = 0
  /\ call.result[2].range.start.line = 2
  /\ call.result[3].range.start.line = 3

\* C13: every fragment of chunk_code that has a range has start.line <= end.line.
C13_RangeInvariant ==
  Walked =>
    \A i \in 1..Len(call.result) :
      call.result[i].range.start.line <= call.result[i].range.end.line

\* the pieces of the last chunk_code call are consecutive runs of whole lines
\* of the file, each starting after the start of the one before and at most
\* 15 lines before its end
LineRuns ==
  /\ Walked
  /\ \A i \in 1..Len(call.split.lens) :
       /\ call.split.lens[i] >= 1
       /\ Len(SplitLines(call.split.pieces[i])) = call.split.lens[i]
  /\ \A i \in 1..Len(call.split.ovs) : call.split.ovs[i] < call.split.lens[i]

\* C14: when the pieces are consecutive line runs of the file, the content of
\* every fragment is the text of the file's lines start.line .. end.line.
C14_LineAccurate ==
  LineRuns =>
    \A i \in 1..Len(call.result) :
      call.result[i].content
        = JoinLines(Slice(SplitLines(call.content),
                          call.result[i].range.start.line + 1,
                          call.result[i].range.end.line + 1))

\* the file paths of a tree, below path
RECURSIVE FilesBelow(_, _)
FilesBelow(tree, path) ==
  UNION { IF tree[path][i].type = "dir" THEN FilesBelow(tree, tree[path][i].path)
          ELSE {tree[path][i].path} : i \in 1..Len(tree[path]) }

\* a path satisfies a pattern: '**/*.ext' is the paths that end with '.ext',
\* '**/name/**' the paths below a directory called name, any other pattern
\* the paths that end with it
Satisfies(path, pattern) ==
  IF StartsWith(pattern, <<"*", "*", "/", "*", ".">>)
  THEN EndsWith(path, Slice(pattern, 5, Len(pattern)))
  ELSE IF StartsWith(pattern, <<"*", "*", "/">>) /\ EndsWith(pattern, <<"/", "*", "*">>)
  THEN Contains(<<"/">> \o path, <<"/">> \o Slice(pattern, 4, Len(pattern) - 3) \o <<"/">>)
  ELSE EndsWith(path, pattern)

\* the patterns in force for the last list_files call
IncludeInForce ==
  IF call.include_patterns.some THEN call.include_patterns.v ELSE DefaultInclude
ExcludeInForce ==
  IF call.exclude_patterns.some THEN call.exclude_patterns.v ELSE DefaultExclude

\* the paths list_files yielded
Yielded == {call.yielded[i] : i \in 1..Len(call.yielded)}

\* C15: when every listing succeeds, list_files yields a file path exactly
\* when it satisfies at least one include pattern and no exclude pattern, the
\* built-in lists standing for the patterns that were not supplied.
C15_PatternMatching ==
  (call.op = "list_files" /\ ~call.failed) =>
    Yielded = { f \in FilesBelow(call.tree, <<>>) :
                  /\ \E k \in 1..Len(IncludeInForce) : Satisfies(f, IncludeInForce[k])
                  /\ ~\E k \in 1..Len(ExcludeInForce) : Satisfies(f, ExcludeInForce[k]) }

\* C16: with the one include pattern '**/*.py' and nothing excluded, the
\* paths yielded are the paths that end with '.py'.
C16_ExtensionSuffix ==
  (/\ call.op = "list_files"
   /\ ~call.failed
   /\ call.include_patterns = Some(<<ExtPattern(<<"p", "y">>)>>)
   /\ call.exclude_patterns = Some(<<>>))
    => Yielded = { f \in FilesBelow(call.tree, <<>>) : EndsWith(f, <<".", "p", "y">>) }

\* C17: a list_files whose listing of the tree or of a subtree failed does
\* not end for its consumer as a complete enumeration does: it raises.
C17_ListingFailureVisible ==
  (call.op = "list_files" /\ call.failed) => call.raised

\* the text read for a listed file in the last index run
ReadContent(path) == RemoteContent(call.repo, ReadRef(call.repo, call.branch), path)

\* a listed file of the last index run whose read gave a content
Readable(path) == path \notin call.absent /\ ReadContent(path) # <<>>

\* C18: a listed file whose read raises or gives no content is skipped, and it
\* alone: every other listed file is chunked and its fragments are passed to
\* store, and the run raises only when store does.
C18_AbsentFileSkipped ==
  call.op = "index_repository" =>
    /\ \A i \in 1..Len(call.listing) :
         Readable(call.listing[i]) =>
           \E j \in 1..Len(call.chunks) :
             /\ call.chunks[j].filepath = call.listing[i]
             /\ call.chunks[j].content = ReadContent(call.listing[i])
    /\ \A j \in 1..Len(call.chunks) : Readable(call.chunks[j].filepath)
    /\ call.chunks # <<>> => call.stored /\ call.store.chunks = call.chunks
    /\ call.raised => (call.stored /\ call.store.addFails)

\* C18 witness: the first listed file could not be read, the second one was
\* chunked and written
C18_Witness ==
  /\ call.op = "index_repository"
  /\ Len(call.listing) = 2
  /\ ~Readable(call.listing[1])
  /\ Readable(call.listing[2])
  /\ call.store.wrote
  /\ ~call.raised

\* C19: a retrieve beside which a store or a clear ran does not raise, and
\* what it returns is what the table of its lookup or the table at its search
\* gives for the query.
C19_ConcurrentRetrieveSafe ==
  call.op = "retrieve" =>
    /\ ~call.raised
    /\ \/ call.result = ToChunks(Search(call.lookup, Embed(call.query), <<>>, call.n, TRUE))
       \/ call.result = ToChunks(Search(call.after, Embed(call.query), <<>>, call.n, TRUE))

\* C20: the index built for r rows is the small one for r < 256 and else the
\* partitioned one with min(r div 20, 256) partitions: a corpus of 10 rows
\* gets the small index, a corpus of 500 rows 25 partitions, and no corpus
\* more than 256 partitions.
C20_PartitionCount ==
  /\ (call.op = "store" /\ call.store.wrote /\ ~call.store.indexFailed) =>
       LET r == Len(call.store.all_rows)
       IN  /\ r < 256 => call.store.built = [kind |-> "small", partitions |-> 0]
           /\ r >= 256 => /\ call.store.built.kind = "partitioned"
                          /\ call.store.built.partitions = Min(r \div 20, 256)
           /\ r = 10 => call.store.built.kind = "small"
           /\ r = 500 => call.store.built.partitions = 25
           /\ index = call.store.built
  /\ IndexChoice([i \in 1..5119 |-> i]).partitions = 255
  /\ IndexChoice([i \in 1..5400 |-> i]).partitions = 256

\* C20 witness: a corpus of 500 rows stored, the partitioned index built
C20_Witness ==
  /\ call.op = "store"
  /\ call.store.before = <<>>
  /\ Len(table) = 500
  /\ index = [kind |-> "partitioned", partitions |-> 25]

\* C21: every fragment retrieve returns has the filepath, content, repo and
\* branch of a row of the table and the range start_line .. end_line of that
\* row, characters 0; and the row store writes for a fragment that has a range
\* has the start and end line of that range (so store then retrieve gives the
\* lines back).
C21_Reconstitution ==
  /\ call.op = "retrieve" =>
       \A i \in 1..Len(call.result) :
         /\ \E j \in 1..Len(table) : table[j] = call.found[i]
         /\ call.result[i]
              = [filepath |-> call.found[i].filepath,
                 content |-> call.found[i].content,
                 range |-> [start |-> [line |-> call.found[i].start_line, character |-> 0],
                            end |-> [line |-> call.found[i].end_line, character |-> 0]],
                 repo |-> call.found[i].repo,
                 branch |-> call.found[i].branch]
  /\ (StoreDone /\ call.store.wrote /\ Len(call.store.chunks) <= 100) =>
       \A j \in 1..Len(Written) :
         /\ RowOfChunk(Written[j], call.store.chunks[j])
         /\ call.store.chunks[j].range # NoRange =>
              /\ Written[j].start_line = call.store.chunks[j].range.start.line
              /\ Written[j].end_line = call.store.chunks[j].range.end.line

\* C21 witness: a fragment stored with the range 0 .. 1 is returned
C21_Witness ==
  /\ call.op = "retrieve"
  /\ \E i \in 1..Len(call.result) :
       /\ call.result[i].range.start.line = 0
       /\ call.result[i].range.end.line = 1

\* C22: while the batches of a store call are embedded, and after the call
\* was cancelled in that phase, the table holds the rows it held before the
\* call; the rows of the call are in the table only once every batch was
\* attempted, added in one piece.
C22_SingleBulkWrite ==
  /\ call.op \in {"store_await", "store_cancelled"} => table = call.before
  /\ call.op = "store" =>
       /\ Len(call.store.outcomes) = NumBatches(Len(call.store.chunks))
       /\ table = call.store.before
                  \o (IF call.store.wrote THEN call.store.all_rows ELSE <<>>)

\* C22 witness: a store cancelled after a batch was embedded, the table
\* holding rows of an earlier store
C22_Witness ==
  /\ call.op = "store_cancelled"
  /\ Len(call.outcomes) >= 1
  /\ call.outcomes[1] = "ok"
  /\ call.before # <<>>
  /\ table = call.before

\* C23: every row an index run writes has the repo of the instance and the
\* branch of the run, the default branch when none was given, and neither is
\* empty.
C23_TenantTagging ==
  (call.op = "index_repository" /\ call.store.wrote) =>
    \A j \in 1..Len(Written) :
      /\ Written[j].repo = call.repo
      /\ Written[j].branch = call.branch
      /\ Written[j].repo # <<>>
      /\ Written[j].branch # <<>>

\* C24: an index run passes to store, in one call made after the loop over
\* the listing, the fragments of the files it could read, in the order of the
\* listing; when there is no fragment store is not called and the table keeps
\* its rows.
C24_PipelineOrdering ==
  call.op = "index_repository" =>
    /\ [j \in 1..Len(call.chunks) |-> call.chunks[j].filepath]
         = SelectSeq(call.listing, Readable)
    /\ call.stored <=> call.chunks # <<>>
    /\ call.stored => call.store.chunks = call.chunks
    /\ ~call.stored => table = call.store.before

\* C24 witness: two files listed and read, their fragments stored in that order
C24_Witness ==
  /\ call.op = "index_repository"
  /\ Len(call.listing) = 2
  /\ Len(call.chunks) = 2
  /\ call.chunks[1].filepath = call.listing[1]
  /\ call.chunks[2].filepath = call.listing[2]
  /\ call.store.wrote

\* the segments of a path: its directories and its file name
Segments(path) ==
  { seg \in { Slice(path, i, j) : i \in 1..Len(path), j \in 1..Len(path) } :
      /\ seg # <<>>
      /\ "/" \notin {seg[k] : k \in 1..Len(seg)}
      /\ Contains(<<"/">> \o path \o <<"/">>, <<"/">> \o seg \o <<"/">>) }

\* the name X of the exclude pattern '**/X/**'
ExcludedName(pattern) == Slice(pattern, 4, Len(pattern) - 3)

\* the exclude patterns in force that have the form '**/X/**'
DirExcludes ==
  { pat \in { ExcludeInForce[k] : k \in 1..Len(ExcludeInForce) } :
      StartsWith(pat, <<"*", "*", "/">>) /\ EndsWith(pat, <<"/", "*", "*">>) }

\* C25, as the code has it: a pattern '**/X/**' excludes the paths of which X
\* is a whole segment, a directory or the file name itself, and no other: a
\* file whose name only contains X is yielded when an include pattern takes it.
C25_ExcludeSegment ==
  (call.op = "list_files" /\ ~call.failed) =>
    \A f \in FilesBelow(call.tree, <<>>) :
      /\ (\E pat \in DirExcludes : ExcludedName(pat) \in Segments(f)) => f \notin Yielded
      /\ (/\ should_include(f, IncludeInForce)
          /\ \A pat \in DirExcludes : ExcludedName(pat) \notin Segments(f))
           => f \in Yielded

\* C25 witness: '**/dist/**' in force, dist/b.js is not yielded, dist.py is
C25_Witness ==
  /\ call.op = "list_files"
  /\ ~call.failed
  /\ DirPattern(DirDist) \in DirExcludes
  /\ PathDistB \in FilesBelow(call.tree, <<>>)
  /\ PathDistB \notin Yielded
  /\ PathDistPy \in Yielded

\* C25, as stated: a pattern '**/X/**' also excludes a file whose name
\* contains X although no directory of its path is X.
C25_ExcludeSubstring ==
  (call.op = "list_files" /\ ~call.failed) =>
    \A f \in FilesBelow(call.tree, <<>>) :
      (\E pat \in DirExcludes : Contains(f, ExcludedName(pat))) => f \notin Yielded

\* C26: the content of every fragment of an index run for branch b is the
\* content the file has at ref b.
C26_ReadAtIndexedRef ==
  (call.op = "index_repository" /\ call.branch # <<>>) =>
    \A j \in 1..Len(call.chunks) :
      call.chunks[j].content
        = RemoteContent(call.repo, call.branch, call.chunks[j].filepath)

\* C27: when the table holds rows that index runs of the instance's
\* repository wrote, a search_similar_code without directory and language
\* returns some of them, whatever branch was indexed.
C27_IndexedRowsReachable ==
  (/\ call.op = "retrieve"
   /\ ~call.raised
   /\ call.filter_directory = <<>>
   /\ call.language = <<>>
   /\ \E j \in 1..Len(table) : table[j].repo = InstanceRepo)
    => ContextItems(call.result) # <<>>

\* C28: with the exclude list of index_repository, which names '**/*.min.js'
\* and '**/*.min.css', no path that ends with '.min.js' or '.min.css' is
\* yielded.
C28_MinifiedExcluded ==
  (call.op = "list_files" /\ call.exclude_patterns = Some(IndexExclude)) =>
    \A f \in Yielded :
      /\ ~EndsWith(f, <<".", "m", "i", "n", ".", "j", "s">>)
      /\ ~EndsWith(f, <<".", "m", "i", "n", ".", "c", "s", "s">>)

\* C29: every generate_implementation ends, returning at most max_files
\* changes, whatever the plan and the responses of the model.
C29_GenerateTerminates ==
  (call.op = "generate")
    ~> (call.op = "generated" /\ ~call.raised /\ Len(call.changes) <= call.max_files)

\* the fetches of the normalized path that failed with an error other than
\* a 404
FailedAt(k) == k <= Len(call.outcomes) /\ call.outcomes[k] \in {"403", "error"}

\* the rate limit is nearly used up and resets more than 300 s ahead
LimitFarAhead ==
  ~call.rate.raises /\ call.rate.remaining <= 1 /\ call.rate.reset_in_seconds > 300

\* what the amended and the original statement share: at most 3 fetches of
\* the normalized path; a 404 is the last of them, with at most one fetch
\* each of the alternative and the cleaned path; the third failure gives None
\* after the waits of 5 s and 10 s only; a limit far ahead gives None
\* without any fetch
BoundedFetches ==
  /\ Len(call.outcomes) <= max_retries
  /\ \A k \in 1..Len(call.outcomes) :
       call.outcomes[k] = "404" =>
         /\ k = Len(call.outcomes)
         /\ call.op = "fetched"
         /\ call.alts = 1 /\ call.cleans <= 1
  /\ (call.op = "fetched" /\ FailedAt(max_retries)) =>
       (call.result = "None" /\ call.waits = <<5, 10>>)
  /\ LimitFarAhead =>
       (call.op = "fetched" /\ call.outcomes = <<>> /\ call.alts = 0
          /\ call.cleans = 0 /\ call.result = "None")

\* C30 (as amended): get_file_content raises nothing but the cancellation of
\* one of its waits and makes at most 3 fetches of the normalized path; a 404
\* ends the call without another turn of the loop after at most one fetch
\* each of the alternative and the cleaned path, with the content that one of
\* them gave and with None otherwise; any other error is retried after a wait
\* of 5 s and then 10 s unless the wait is cancelled or the rate limit cannot
\* be read after a 403, which ends the call with None; the third failure
\* gives None without a further wait; a rate limit nearly used up that resets
\* more than 300 s ahead gives None without any fetch.
C30_BoundedRetryAmended ==
  call.op \in {"fetch", "fetched"} =>
    /\ BoundedFetches
    /\ call.raised # "none" =>
         \/ (call.outcomes = <<>> /\ call.rate.remaining <= 1
               /\ call.rate.reset_in_seconds <= 300)
         \/ (Len(call.outcomes) < max_retries /\ FailedAt(Len(call.outcomes)))
    /\ (call.op = "fetched" /\ "404" \in {call.outcomes[k] : k \in 1..Len(call.outcomes)}) =>
         /\ call.raised = "none"
         /\ (call.result = "content") = (call.found \in {"alt", "clean"})
         /\ call.found = "clean" => call.cleans = 1
    /\ \A k \in 1..(max_retries - 1) :
         (call.op = "fetched" /\ FailedAt(k)) =>
           \/ Len(call.outcomes) > k /\ call.waits[k] = 5 * (2 ^ (k - 1))
           \/ Len(call.outcomes) = k /\ call.raised = "CancelledError"
           \/ Len(call.outcomes) = k /\ call.limit_failed /\ call.outcomes[k] = "403"
                /\ call.result = "None"

\* C30 witness: a call that was retried after 5 s and after 10 s and whose
\* third fetch met a 404, with one fetch each of the alternative and the
\* cleaned path
C30_Witness ==
  /\ call.op = "fetched"
  /\ call.outcomes = <<"403", "error", "404">>
  /\ call.waits = <<5, 10>>
  /\ call.alts = 1 /\ call.cleans = 1
  /\ call.result = "None"

\* C30 (as stated): the call never raises; a 404 ends it with None; any
\* other error is retried after a wait of 5 s and then 10 s.
C30_BoundedRetry ==
  call.op \in {"fetch", "fetched"} =>
    /\ BoundedFetches
    /\ call.raised = "none"
    /\ (call.op = "fetched" /\ "404" \in {call.outcomes[k] : k \in 1..Len(call.outcomes)}) =>
         call.result = "None"
    /\ \A k \in 1..(max_retries - 1) :
         (call.op = "fetched" /\ FailedAt(k)) =>
           (Len(call.outcomes) > k /\ call.waits[k] = 5 * (2 ^ (k - 1)))

====
